---- MODULE Spec2Model ----
(***************************************************************************)
(* Model of onmt/ModelConstructor.py (HAN-NMT): make_base_model and the    *)
(* dispatchers it calls (make_encoder, make_decoder, make_context).        *)
(*                                                                         *)
(* One call of make_base_model is a sequential process; pc is its position *)
(* in the function body.  Parameters (torch Parameter objects) are cells;  *)
(* a state-dict key is bound to a cell, and two keys bound to one cell are *)
(* a tied (shared) parameter.  Strings that the code searches or rewrites  *)
(* (state-dict keys, context_type) are sequences of characters, so that    *)
(* `in` and replace are the substring operations of Python.                *)
(***************************************************************************)
EXTENDS Integers, Sequences, FiniteSets, TLC

VARIABLES
    pc,             \* position in make_base_model
    exc,            \* exception that ended the call, "none" while running
    opt,            \* model_opt
    fields,         \* fields["src"].vocab / fields["tgt"].vocab (as names)
    gpu,            \* argument gpu
    checkpoint,     \* argument checkpoint
    train_part,     \* argument train_part
    src_dict,       \* local src_dict: unbound until line 183 binds it
    encoder,        \* class of the encoder built, "unset" before
    decoder,        \* class of the decoder built, "unset" before
    context,        \* what make_context returned
    model,          \* the NMTModel: "unset", "NMTModel", "NMTModel+scorer"
    generator,      \* class of the generator built, "unset" before
    bind,           \* model state-dict key -> cell (model.named_parameters)
    gbind,          \* generator state-dict key -> cell
    val,            \* cell -> value held by the parameter's tensor
    requires_grad,  \* cell -> the flag autograd reads
    require_grad,   \* cell -> the attribute lines 265-270 assign
    model_dict,     \* the state handed to model.load_state_dict
    attached,       \* model.generator = generator has run
    device          \* "unset", "cuda", "cpu"

vars == <<pc, exc, opt, fields, gpu, checkpoint, train_part, src_dict, encoder,
          decoder, context, model, generator, bind, gbind, val, requires_grad,
          require_grad, model_dict, attached, device>>

(***************************************************************************)
(* Bounds                                                                  *)
(***************************************************************************)
\* number of distinct tensor values a checkpoint entry of an embedding table
\* or of the generator weight may hold
NumVals == 2

(***************************************************************************)
(* Strings as character sequences                                          *)
(***************************************************************************)
\* Python `sub in s`: sub occurs in s as a substring
Contains(s, sub) ==
    \E i \in 1..(Len(s) - Len(sub) + 1) : SubSeq(s, i, i + Len(sub) - 1) = sub

\* Python s.startswith(sub) and s.endswith(sub)
StartsWith(s, sub) == Len(sub) <= Len(s) /\ SubSeq(s, 1, Len(sub)) = sub
EndsWith(s, sub) ==
    Len(sub) <= Len(s) /\ SubSeq(s, Len(s) - Len(sub) + 1, Len(s)) = sub

\* Python s.replace(old, new): every occurrence of old, scanning from the
\* left without overlap, becomes new
RECURSIVE Replace(_, _, _)
Replace(s, old, new) ==
    IF Len(s) < Len(old) THEN s
    ELSE IF SubSeq(s, 1, Len(old)) = old
         THEN new \o Replace(SubSeq(s, Len(old) + 1, Len(s)), old, new)
         ELSE <<Head(s)>> \o Replace(Tail(s), old, new)

\* the string literals of the code and the names of the modules' attributes
S_join        == <<"j", "o", "i", "n">>
S_HAN         == <<"H", "A", "N", "_">>
S_doc_context == <<"d", "o", "c", "_", "c", "o", "n", "t", "e", "x", "t">>
S_encoder     == <<"e", "n", "c", "o", "d", "e", "r">>
S_decoder     == <<"d", "e", "c", "o", "d", "e", "r">>
S_embeddings  == <<"e", "m", "b", "e", "d", "d", "i", "n", "g", "s">>
S_generator   == <<"g", "e", "n", "e", "r", "a", "t", "o", "r">>
S_linear      == <<"l", "i", "n", "e", "a", "r">>
S_weight      == <<"w", "e", "i", "g", "h", "t">>
S_bias        == <<"b", "i", "a", "s">>

\* a dotted path a.b
Path(a, b) == a \o <<".">> \o b

\* context_type None: no string, so no sequence of characters
None == <<"None">>
HAN_join  == S_HAN \o S_join
HAN_enc   == S_HAN \o <<"e", "n", "c">>
HAN_dec   == S_HAN \o <<"d", "e", "c">>
\* a string that has 'join' in it and is not "HAN_join"
HAN_joint == S_HAN \o S_join \o <<"t">>

(***************************************************************************)
(* Tensor values                                                           *)
(***************************************************************************)
Fresh      == [src |-> "constructor", n |-> 0]
Uniform    == [src |-> "uniform", n |-> 0]
Glorot     == [src |-> "xavier_uniform", n |-> 0]
Pretrained(file) == [src |-> file, n |-> 0]
Ckpt(n)    == [src |-> "checkpoint", n |-> n]

\* number of dimensions of the parameter created under key k
Dim(k) ==
    IF EndsWith(k, <<".", "b">>) \/ EndsWith(k, <<".">> \o S_bias) THEN 1 ELSE 2

(***************************************************************************)
(* State-dict keys                                                         *)
(***************************************************************************)
EncEmb == Path(S_encoder, Path(S_embeddings, S_weight))
EncW   == Path(S_encoder, <<"w">>)
DecEmb == Path(S_decoder, Path(S_embeddings, S_weight))
DecB   == Path(S_decoder, <<"b">>)

\* keys of a HierarchicalContext registered under prefix p
ContextModuleKeys(p) == {Path(p, <<"w">>), Path(p, <<"b">>)}

\* the prefixes of a single context module and of the members of a pair
Ctx       == S_doc_context
CtxMember(i) == Path(S_doc_context, <<i>>)
CtxW      == Path(Ctx, <<"w">>)
CtxB      == Path(Ctx, <<"b">>)

\* keys of the encoder: only the text encoders hold embeddings
EncoderKeys(model_type) ==
    IF model_type = "text" THEN {EncEmb, EncW} ELSE {EncW}

\* keys model.doc_context contributes to model.state_dict()
ContextKeys(ctx) ==
    CASE ctx.kind = "None" -> {}
      [] ctx.kind = "HierarchicalContext" -> ContextModuleKeys(Ctx)
      [] ctx.kind = "ModuleList" ->
            ContextModuleKeys(CtxMember("0")) \cup
            ContextModuleKeys(CtxMember("1"))

\* keys of the generator: nn.Sequential(Linear, LogSoftmax) or CopyGenerator
GeneratorKeys(copy_attn) ==
    IF copy_attn THEN {Path(S_linear, S_weight), Path(S_linear, S_bias)}
    ELSE {Path(<<"0">>, S_weight), Path(<<"0">>, S_bias)}

GenWeight(copy_attn) ==
    IF copy_attn THEN Path(S_linear, S_weight) ELSE Path(<<"0">>, S_weight)

\* module registration order of NMTModel, the order load_state_dict copies in
KeyOrder == << EncEmb, EncW, DecEmb, DecB,
               CtxW, CtxB,
               Path(CtxMember("0"), <<"w">>), Path(CtxMember("0"), <<"b">>),
               Path(CtxMember("1"), <<"w">>), Path(CtxMember("1"), <<"b">>) >>

KeyId(k) == CHOOSE i \in 1..Len(KeyOrder) : KeyOrder[i] = k

(***************************************************************************)
(* Inputs                                                                  *)
(***************************************************************************)
ModelTypes   == {"text", "img", "audio", "video"}
EncoderTypes == {"transformer", "cnn", "mean", "rnn", "brnn", "lstm"}
DecoderTypes == {"transformer", "cnn", "rnn"}
\* None, three of the model's context types, and a string that has 'join' in
\* it without being "HAN_join"
ContextTypes == {None, HAN_enc, HAN_dec, HAN_join, HAN_joint}
TrainParts   == {"all", "context", "sentences"}

DefaultOpt ==
    [model_type |-> "text", encoder_type |-> "rnn", decoder_type |-> "rnn",
     input_feed |-> 1, share_embeddings |-> FALSE, copy_attn |-> FALSE,
     share_decoder_embeddings |-> FALSE, context_type |-> None,
     RISK_ratio |-> 0, param_init |-> 1, param_init_glorot |-> FALSE,
     pre_word_vecs_enc |-> "None", pre_word_vecs_dec |-> "None",
     rnn_size |-> 512, dropout |-> 1, context_size |-> 3]

\* a vocabulary: its identity and the indices make_context reads from stoi
Vocab(name) == [name |-> name, pad |-> 1, bos |-> 2, eos |-> 3]
DefaultFields == [src |-> Vocab("shared"), tgt |-> Vocab("shared")]

\* a local variable no assignment has bound yet
Unbound == [bound |-> FALSE, vocab |-> Vocab("")]

NoCheckpoint == [present |-> FALSE, model |-> <<>>, generator |-> <<>>]

\* checkpoint['model'] of a sentence-level model, of a model with a single
\* context module, and of a model with the paired context
CheckpointKeys(shape) ==
    {EncEmb, EncW, DecEmb, DecB} \cup
    CASE shape = "sentence" -> {}
      [] shape = "single" -> ContextModuleKeys(Ctx)
      [] shape = "pair" -> ContextModuleKeys(CtxMember("0")) \cup
                           ContextModuleKeys(CtxMember("1"))

\* The values of the two embedding tables and of the generator weight are
\* drawn freely (a checkpoint need not come from a model with tied tables);
\* every other entry holds a value of its own.
Checkpoints(copy_attn) ==
    { [present |-> TRUE,
       model |-> [k \in CheckpointKeys(shape) |->
                    IF k = EncEmb THEN Ckpt(e)
                    ELSE IF k = DecEmb THEN Ckpt(1)
                    ELSE Ckpt(NumVals + KeyId(k))],
       generator |-> [k \in GeneratorKeys(copy_attn) |->
                    IF k = GenWeight(copy_attn) THEN Ckpt(g)
                    ELSE Ckpt(NumVals + Len(KeyOrder) + 1)]] :
      shape \in {"sentence", "single", "pair"}, e \in 1..NumVals, g \in 1..NumVals }

\* architecture dispatch and embedding sharing, trained from scratch
InitDispatch ==
    /\ \E mt \in ModelTypes, et \in EncoderTypes, dt \in DecoderTypes,
          inf \in {0, 1}, se \in BOOLEAN, risk \in {0, 1} :
          opt = [DefaultOpt EXCEPT !.model_type = mt, !.encoder_type = et,
                                   !.decoder_type = dt, !.input_feed = inf,
                                   !.share_embeddings = se, !.RISK_ratio = risk]
    /\ \E tv \in {"shared", "tgt"} : fields = [DefaultFields EXCEPT !.tgt = Vocab(tv)]
    /\ gpu \in BOOLEAN
    /\ checkpoint = NoCheckpoint
    /\ train_part = "all"

\* initialisation policy without a checkpoint
InitScratch ==
    /\ \E mt \in {"text", "img", "audio"}, se \in BOOLEAN, ca \in BOOLEAN, sde \in BOOLEAN,
          ct \in ContextTypes, pin \in {0, 1}, glo \in BOOLEAN,
          pe \in {"None", "enc.vec"}, pd \in {"None", "dec.vec"} :
          opt = [DefaultOpt EXCEPT !.model_type = mt, !.share_embeddings = se,
                                   !.copy_attn = ca, !.share_decoder_embeddings = sde,
                                   !.context_type = ct, !.param_init = pin,
                                   !.param_init_glorot = glo,
                                   !.pre_word_vecs_enc = pe, !.pre_word_vecs_dec = pd]
    /\ fields = DefaultFields
    /\ gpu = FALSE
    /\ checkpoint = NoCheckpoint
    /\ train_part = "all"

\* loading from a checkpoint, whole model or context stage
InitLoad ==
    /\ \E mt \in {"text", "img", "audio"}, se \in BOOLEAN, ca \in BOOLEAN, sde \in BOOLEAN,
          ct \in ContextTypes, pin \in {0, 1}, glo \in BOOLEAN :
          /\ opt = [DefaultOpt EXCEPT !.model_type = mt, !.share_embeddings = se,
                                      !.copy_attn = ca, !.share_decoder_embeddings = sde,
                                      !.context_type = ct, !.param_init = pin,
                                      !.param_init_glorot = glo,
                                      !.pre_word_vecs_enc = "enc.vec",
                                      !.pre_word_vecs_dec = "dec.vec"]
          /\ checkpoint \in Checkpoints(ca)
    /\ fields = DefaultFields
    /\ gpu = FALSE
    /\ train_part \in TrainParts

Init ==
    /\ pc = "check_model_type"
    /\ exc = "none"
    /\ InitDispatch \/ InitScratch \/ InitLoad
    /\ src_dict = Unbound
    /\ encoder = "unset"
    /\ decoder = "unset"
    /\ context = [kind |-> "unset", members |-> <<>>]
    /\ model = "unset"
    /\ generator = "unset"
    /\ bind = <<>>
    /\ gbind = <<>>
    /\ val = <<>>
    /\ requires_grad = <<>>
    /\ require_grad = <<>>
    /\ model_dict = <<>>
    /\ attached = FALSE
    /\ device = "unset"

(***************************************************************************)
(* Dispatchers                                                             *)
(***************************************************************************)
\* make_encoder(opt, embeddings): the class of the encoder returned
make_encoder(o) ==
    IF o.encoder_type = "transformer" THEN "TransformerEncoder"
    ELSE IF o.encoder_type = "cnn" THEN "CNNEncoder"
    ELSE IF o.encoder_type = "mean" THEN "MeanEncoder"
    ELSE "RNNEncoder"

\* make_decoder with input_feed consulted before decoder_type
make_decoder_feed_first(o) ==
    IF o.input_feed /= 0 THEN "InputFeedRNNDecoder"
    ELSE IF o.decoder_type = "transformer" THEN "TransformerDecoder"
    ELSE IF o.decoder_type = "cnn" THEN "CNNDecoder"
    ELSE "StdRNNDecoder"

\* make_decoder(opt, embeddings): the class of the decoder returned
make_decoder(o) ==
    IF o.decoder_type = "transformer" THEN "TransformerDecoder"
    ELSE IF o.decoder_type = "cnn" THEN "CNNDecoder"
    ELSE IF o.input_feed /= 0 THEN "InputFeedRNNDecoder"
    ELSE "StdRNNDecoder"

\* onmt.io.UNK as read at line 137
UNK == 0

\* one HierarchicalContext(...) constructor call of make_context
HierarchicalContext(o, tgt_dict) ==
    [class |-> "HierarchicalContext", rnn_size |-> o.rnn_size, dropout |-> o.dropout,
     context_type |-> o.context_type, context_size |-> o.context_size,
     padding_idx |-> tgt_dict.pad,
     tok_idx |-> <<tgt_dict.pad, UNK, tgt_dict.bos, tgt_dict.eos>>]

\* make_context pairing on any context_type that mentions join
make_context_any_join(o, tgt_dict) ==
    IF o.context_type = None THEN [kind |-> "None", members |-> <<>>]
    ELSE IF Contains(o.context_type, S_join)
         THEN [kind |-> "ModuleList",
               members |-> <<HierarchicalContext(o, tgt_dict),
                             HierarchicalContext(o, tgt_dict)>>]
         ELSE [kind |-> "HierarchicalContext",
               members |-> <<HierarchicalContext(o, tgt_dict)>>]

\* make_context(opt, tgt_dict)
make_context(o, tgt_dict) ==
    IF o.context_type = None THEN [kind |-> "None", members |-> <<>>]
    ELSE IF o.context_type = HAN_join
         THEN [kind |-> "ModuleList",
               members |-> <<HierarchicalContext(o, tgt_dict),
                             HierarchicalContext(o, tgt_dict)>>]
         ELSE [kind |-> "HierarchicalContext",
               members |-> <<HierarchicalContext(o, tgt_dict)>>]

\* the encoder make_base_model builds for a supported model_type
BuildEncoder(o) ==
    IF o.model_type = "text" THEN make_encoder(o)
    ELSE IF o.model_type = "img" THEN "ImageEncoder"
    ELSE "AudioEncoder"

(***************************************************************************)
(* Parameters                                                              *)
(***************************************************************************)
Range(f) == {f[k] : k \in DOMAIN f}

\* f extended (or overridden) on the keys S by g
Update(f, S, g) == [k \in DOMAIN f \cup S |-> IF k \in S THEN g[k] ELSE f[k]]

\* f without the keys S
Without(f, S) == [k \in DOMAIN f \ S |-> f[k]]

\* every parameter of model.parameters() / generator.parameters()
ModelCells == Range(bind)
GeneratorCells == Range(gbind)
\* every parameter of model.doc_context.parameters()
ContextCells ==
    {bind[k] : k \in {j \in DOMAIN bind : StartsWith(j, Path(S_doc_context, <<>>))}}
\* parameters of the encoder and the decoder
MainCells ==
    {bind[k] : k \in {j \in DOMAIN bind : ~StartsWith(j, Path(S_doc_context, <<>>))}}

(***************************************************************************)
(* make_base_model, lines 178-241: building the model                      *)
(***************************************************************************)
Raise(e) == pc' = "raised" /\ exc' = e

\* line 178: assert model_opt.model_type in ["text", "img", "audio"]
CheckModelType ==
    /\ pc = "check_model_type"
    /\ IF opt.model_type \in {"text", "img", "audio"}
       THEN pc' = "make_encoder" /\ exc' = exc
       ELSE Raise("AssertionError: Unsupported model type")
    /\ UNCHANGED <<opt, fields, gpu, checkpoint, train_part, src_dict, encoder,
                   decoder, context, model, generator, bind, gbind, val,
                   requires_grad, require_grad, model_dict, attached, device>>

\* lines 182-199: src_dict and src_embeddings exist only for model_type text
MakeEncoder ==
    /\ pc = "make_encoder"
    /\ encoder' = BuildEncoder(opt)
    /\ src_dict' = IF opt.model_type = "text"
                   THEN [bound |-> TRUE, vocab |-> fields.src] ELSE src_dict
    /\ LET K == EncoderKeys(opt.model_type) IN
          /\ bind' = Update(bind, K, [k \in K |-> k])
          /\ val' = Update(val, K, [k \in K |-> Fresh])
          /\ requires_grad' = Update(requires_grad, K, [k \in K |-> TRUE])
          /\ require_grad' = Update(require_grad, K, [k \in K |-> "unset"])
    /\ pc' = "make_tgt_embeddings"
    /\ UNCHANGED <<exc, opt, fields, gpu, checkpoint, train_part, decoder, context,
                   model, generator, gbind, model_dict, attached, device>>

\* lines 202-205: tgt_embeddings, the table the decoder will register
MakeTgtEmbeddings ==
    /\ pc = "make_tgt_embeddings"
    /\ bind' = Update(bind, {DecEmb}, [k \in {DecEmb} |-> k])
    /\ val' = Update(val, {DecEmb}, [k \in {DecEmb} |-> Fresh])
    /\ requires_grad' = Update(requires_grad, {DecEmb}, [k \in {DecEmb} |-> TRUE])
    /\ require_grad' = Update(require_grad, {DecEmb}, [k \in {DecEmb} |-> "unset"])
    /\ pc' = "share_embeddings"
    /\ UNCHANGED <<exc, opt, fields, gpu, checkpoint, train_part, src_dict, encoder,
                   decoder, context, model, generator, gbind, model_dict, attached,
                   device>>

\* lines 208-214: reading src_dict when no assignment bound it raises
\* UnboundLocalError; the assignment at 214 makes the decoder's table the
\* encoder's parameter, and the table built at 204 is dropped
ShareEmbeddings ==
    /\ pc = "share_embeddings"
    /\ IF ~opt.share_embeddings
       THEN /\ pc' = "make_decoder"
            /\ UNCHANGED <<exc, bind, val, requires_grad, require_grad>>
       ELSE IF ~src_dict.bound
       THEN /\ Raise("UnboundLocalError: src_dict")
            /\ UNCHANGED <<bind, val, requires_grad, require_grad>>
       ELSE IF src_dict.vocab /= fields.tgt
       THEN /\ Raise("AssertionError: -share_vocab")
            /\ UNCHANGED <<bind, val, requires_grad, require_grad>>
       ELSE /\ pc' = "make_decoder"
            /\ exc' = exc
            /\ bind' = [bind EXCEPT ![DecEmb] = bind[EncEmb]]
            /\ val' = Without(val, {DecEmb})
            /\ requires_grad' = Without(requires_grad, {DecEmb})
            /\ require_grad' = Without(require_grad, {DecEmb})
    /\ UNCHANGED <<opt, fields, gpu, checkpoint, train_part, src_dict, encoder,
                   decoder, context, model, generator, gbind, model_dict, attached,
                   device>>

\* line 216
MakeDecoder ==
    /\ pc = "make_decoder"
    /\ decoder' = make_decoder(opt)
    /\ bind' = Update(bind, {DecB}, [k \in {DecB} |-> k])
    /\ val' = Update(val, {DecB}, [k \in {DecB} |-> Fresh])
    /\ requires_grad' = Update(requires_grad, {DecB}, [k \in {DecB} |-> TRUE])
    /\ require_grad' = Update(require_grad, {DecB}, [k \in {DecB} |-> "unset"])
    /\ pc' = "make_context"
    /\ UNCHANGED <<exc, opt, fields, gpu, checkpoint, train_part, src_dict, encoder,
                   context, model, generator, gbind, model_dict, attached, device>>

\* line 217
MakeContext ==
    /\ pc = "make_context"
    /\ context' = make_context(opt, fields.tgt)
    /\ LET K == ContextKeys(context') IN
          /\ bind' = Update(bind, K, [k \in K |-> k])
          /\ val' = Update(val, K, [k \in K |-> Fresh])
          /\ requires_grad' = Update(requires_grad, K, [k \in K |-> TRUE])
          /\ require_grad' = Update(require_grad, K, [k \in K |-> "unset"])
    /\ pc' = "make_model"
    /\ UNCHANGED <<exc, opt, fields, gpu, checkpoint, train_part, src_dict, encoder,
                   decoder, model, generator, gbind, model_dict, attached, device>>

\* lines 220-230
MakeModel ==
    /\ pc = "make_model"
    /\ model' = IF opt.RISK_ratio > 0 THEN "NMTModel+scorer" ELSE "NMTModel"
    /\ pc' = "make_generator"
    /\ UNCHANGED <<exc, opt, fields, gpu, checkpoint, train_part, src_dict, encoder,
                   decoder, context, generator, bind, gbind, val, requires_grad,
                   require_grad, model_dict, attached, device>>

\* the generator keeping the weight its Linear was built with
GeneratorBindingUntied(o, b) ==
    [k \in GeneratorKeys(o.copy_attn) |-> Path(S_generator, k)]

\* the cell behind each generator key once lines 233-241 have run: line 238
\* makes generator[0].weight the decoder's word-embedding parameter
GeneratorBinding(o, b) ==
    [k \in GeneratorKeys(o.copy_attn) |->
        IF ~o.copy_attn /\ o.share_decoder_embeddings /\ k = GenWeight(FALSE)
        THEN b[DecEmb] ELSE Path(S_generator, k)]

\* lines 233-241, and the branch taken at 244
MakeGenerator ==
    /\ pc = "make_generator"
    /\ generator' = IF ~opt.copy_attn THEN "Sequential" ELSE "CopyGenerator"
    /\ gbind' = GeneratorBinding(opt, bind)
    /\ LET K == Range(gbind') \ Range(bind) IN
          /\ val' = Update(val, K, [k \in K |-> Fresh])
          /\ requires_grad' = Update(requires_grad, K, [k \in K |-> TRUE])
          /\ require_grad' = Update(require_grad, K, [k \in K |-> "unset"])
    /\ pc' = IF checkpoint.present THEN "state_dict" ELSE "init_uniform"
    /\ UNCHANGED <<exc, opt, fields, gpu, checkpoint, train_part, src_dict, encoder,
                   decoder, context, model, bind, model_dict, attached, device>>

(***************************************************************************)
(* State dicts                                                             *)
(***************************************************************************)
\* An entry of a state dict: a tensor of the model itself (state_dict()
\* returns the parameters' own storage) or a tensor of the checkpoint.
Own(c) == [own |-> TRUE, cell |-> c, v |-> Fresh]
Ext(v) == [own |-> FALSE, cell |-> <<>>, v |-> v]

\* model.state_dict()
state_dict(b) == [k \in DOMAIN b |-> Own(b[k])]

\* checkpoint['model'] as a state dict
CheckpointDict(ckpt) == [k \in DOMAIN ckpt.model |-> Ext(ckpt.model[k])]

\* the join test looking for a misspelt token
IsJoinMisspelt(context_type) == Contains(context_type, S_join \o <<"s">>)

\* line 249
IsJoin(context_type) == Contains(context_type, S_join)

\* line 254: k.replace('doc_context', 'doc_context.0')
RemapKey(k) == Replace(k, S_doc_context, Path(S_doc_context, <<"0">>))

\* lines 250-255: pretrained_dict of the join branch
PretrainedJoin(ckpt, md) ==
    LET kept == {k \in DOMAIN ckpt.model : k \in DOMAIN md}
        New(k) == IF Contains(k, S_doc_context) THEN RemapKey(k) ELSE k
    IN  [k2 \in {New(k) : k \in kept} |->
            Ext(ckpt.model[CHOOSE k \in kept : New(k) = k2])]

\* pretrained_dict keeping the checkpoint's doc_context entries
PretrainedSingleUnfiltered(ckpt, md) ==
    LET kept == {k \in DOMAIN ckpt.model : k \in DOMAIN md}
    IN  [k \in kept |-> Ext(ckpt.model[k])]

\* line 257: pretrained_dict of the other branch
PretrainedSingle(ckpt, md) ==
    LET kept == {k \in DOMAIN ckpt.model :
                    k \in DOMAIN md /\ ~Contains(k, S_doc_context)}
    IN  [k \in kept |-> Ext(ckpt.model[k])]

\* line 258: model_dict.update(pretrained_dict)
DictUpdate(md, pretrained) == Update(md, DOMAIN pretrained, pretrained)

\* model.load_state_dict(sd, strict=False): in registration order, each key
\* the model and sd share has sd's tensor copied into the parameter in place;
\* keys of sd the model lacks are ignored
RECURSIVE LoadFrom(_, _, _, _)
LoadFrom(i, v, b, sd) ==
    IF i > Len(KeyOrder) THEN v
    ELSE LET k == KeyOrder[i] IN
         IF k \in DOMAIN b /\ k \in DOMAIN sd
         THEN LoadFrom(i + 1,
                       [v EXCEPT ![b[k]] = IF sd[k].own THEN v[sd[k].cell] ELSE sd[k].v],
                       b, sd)
         ELSE LoadFrom(i + 1, v, b, sd)

load_state_dict(v, b, sd) == LoadFrom(1, v, b, sd)

\* generator.load_state_dict(checkpoint['generator'])
LoadGeneratorState(v, gb, ckpt) ==
    [c \in DOMAIN v |->
        IF \E k \in DOMAIN gb : gb[k] = c
        THEN ckpt.generator[CHOOSE k \in DOMAIN gb : gb[k] = c]
        ELSE v[c]]

(***************************************************************************)
(* Initialisers                                                            *)
(***************************************************************************)
\* p.data.uniform_(-param_init, param_init) on every cell of S, if param_init != 0.0
UniformInit(v, S, o) ==
    [c \in DOMAIN v |-> IF c \in S /\ o.param_init /= 0 THEN Uniform ELSE v[c]]

\* xavier_uniform applied without the p.dim() > 1 test
GlorotInitAnyDim(v, S, o) ==
    [c \in DOMAIN v |-> IF c \in S /\ o.param_init_glorot THEN Glorot ELSE v[c]]

\* xavier_uniform(p) on every cell of S with p.dim() > 1, if param_init_glorot
GlorotInit(v, S, o) ==
    [c \in DOMAIN v |->
        IF c \in S /\ o.param_init_glorot /\ Dim(c) > 1 THEN Glorot ELSE v[c]]

\* embeddings.load_pretrained_vectors(emb_file, fixed): copies the file's
\* vectors into the table when a file is given (the second argument, which
\* only decides whether the table is trained further, is left out)
load_pretrained_vectors(v, c, emb_file) ==
    IF emb_file /= "None" THEN [v EXCEPT ![c] = Pretrained(emb_file)] ELSE v

\* re-initialising every parameter of the model
ReinitAll == ModelCells

\* the cells lines 269-275 re-initialise
ReinitCells == ContextCells

(***************************************************************************)
(* make_base_model, lines 244-275: loading from a checkpoint               *)
(***************************************************************************)
\* lines 246-249: model_dict, and the test 'join' in model_opt.context_type,
\* which raises TypeError when context_type is None
StateDict ==
    /\ pc = "state_dict"
    /\ IF train_part /= "context"
       THEN /\ model_dict' = CheckpointDict(checkpoint)
            /\ pc' = "load_model" /\ exc' = exc
       ELSE /\ model_dict' = state_dict(bind)
            /\ IF opt.context_type = None
               THEN Raise("TypeError: argument of type 'NoneType' is not iterable")
               ELSE /\ pc' = IF IsJoin(opt.context_type) THEN "remap" ELSE "filter"
                    /\ exc' = exc
    /\ UNCHANGED <<opt, fields, gpu, checkpoint, train_part, src_dict, encoder,
                   decoder, context, model, generator, bind, gbind, val,
                   requires_grad, require_grad, attached, device>>

\* lines 250-255 and 258
RemapJoin ==
    /\ pc = "remap"
    /\ model_dict' = DictUpdate(model_dict, PretrainedJoin(checkpoint, model_dict))
    /\ pc' = "load_model"
    /\ UNCHANGED <<exc, opt, fields, gpu, checkpoint, train_part, src_dict, encoder,
                   decoder, context, model, generator, bind, gbind, val,
                   requires_grad, require_grad, attached, device>>

\* lines 257-258
FilterSingle ==
    /\ pc = "filter"
    /\ model_dict' = DictUpdate(model_dict, PretrainedSingle(checkpoint, model_dict))
    /\ pc' = "load_model"
    /\ UNCHANGED <<exc, opt, fields, gpu, checkpoint, train_part, src_dict, encoder,
                   decoder, context, model, generator, bind, gbind, val,
                   requires_grad, require_grad, attached, device>>

\* line 260
LoadModel ==
    /\ pc = "load_model"
    /\ val' = load_state_dict(val, bind, model_dict)
    /\ pc' = "load_generator"
    /\ UNCHANGED <<exc, opt, fields, gpu, checkpoint, train_part, src_dict, encoder,
                   decoder, context, model, generator, bind, gbind, requires_grad,
                   require_grad, model_dict, attached, device>>

\* line 261
LoadGenerator ==
    /\ pc = "load_generator"
    /\ val' = LoadGeneratorState(val, gbind, checkpoint)
    /\ pc' = IF train_part = "context" THEN "freeze" ELSE "add_generator"
    /\ UNCHANGED <<exc, opt, fields, gpu, checkpoint, train_part, src_dict, encoder,
                   decoder, context, model, generator, bind, gbind, requires_grad,
                   require_grad, model_dict, attached, device>>

\* lines 263-267: the loops assign the attribute require_grad; requires_grad,
\* the flag autograd reads, is not assigned
Freeze ==
    /\ pc = "freeze"
    /\ require_grad' = [c \in DOMAIN require_grad |->
                          IF c \in ModelCells \cup GeneratorCells
                          THEN "False" ELSE require_grad[c]]
    /\ pc' = "unfreeze_context"
    /\ UNCHANGED <<exc, opt, fields, gpu, checkpoint, train_part, src_dict, encoder,
                   decoder, context, model, generator, bind, gbind, val,
                   requires_grad, model_dict, attached, device>>

\* lines 268-275
UnfreezeContext ==
    /\ pc = "unfreeze_context"
    /\ require_grad' = [c \in DOMAIN require_grad |->
                          IF c \in ContextCells THEN "True" ELSE require_grad[c]]
    /\ val' = GlorotInit(UniformInit(val, ReinitCells, opt), ReinitCells, opt)
    /\ pc' = "add_generator"
    /\ UNCHANGED <<exc, opt, fields, gpu, checkpoint, train_part, src_dict, encoder,
                   decoder, context, model, generator, bind, gbind, requires_grad,
                   model_dict, attached, device>>

(***************************************************************************)
(* make_base_model, lines 276-296: initialising without a checkpoint       *)
(***************************************************************************)
\* lines 277-282
InitUniform ==
    /\ pc = "init_uniform"
    /\ val' = UniformInit(val, ModelCells \cup GeneratorCells, opt)
    /\ pc' = "init_glorot"
    /\ UNCHANGED <<exc, opt, fields, gpu, checkpoint, train_part, src_dict, encoder,
                   decoder, context, model, generator, bind, gbind, requires_grad,
                   require_grad, model_dict, attached, device>>

\* lines 283-289
InitGlorot ==
    /\ pc = "init_glorot"
    /\ val' = GlorotInit(val, ModelCells \cup GeneratorCells, opt)
    /\ pc' = "pretrained_enc"
    /\ UNCHANGED <<exc, opt, fields, gpu, checkpoint, train_part, src_dict, encoder,
                   decoder, context, model, generator, bind, gbind, requires_grad,
                   require_grad, model_dict, attached, device>>

\* lines 291-293: only the encoders built for model_type text have embeddings
LoadPretrainedEnc ==
    /\ pc = "pretrained_enc"
    /\ val' = IF EncEmb \in DOMAIN bind
              THEN load_pretrained_vectors(val, bind[EncEmb], opt.pre_word_vecs_enc)
              ELSE val
    /\ pc' = "pretrained_dec"
    /\ UNCHANGED <<exc, opt, fields, gpu, checkpoint, train_part, src_dict, encoder,
                   decoder, context, model, generator, bind, gbind, requires_grad,
                   require_grad, model_dict, attached, device>>

\* lines 294-296
LoadPretrainedDec ==
    /\ pc = "pretrained_dec"
    /\ val' = load_pretrained_vectors(val, bind[DecEmb], opt.pre_word_vecs_dec)
    /\ pc' = "add_generator"
    /\ UNCHANGED <<exc, opt, fields, gpu, checkpoint, train_part, src_dict, encoder,
                   decoder, context, model, generator, bind, gbind, requires_grad,
                   require_grad, model_dict, attached, device>>

(***************************************************************************)
(* make_base_model, lines 299-308                                          *)
(***************************************************************************)
\* line 300
AddGenerator ==
    /\ pc = "add_generator"
    /\ attached' = TRUE
    /\ pc' = "to_device"
    /\ UNCHANGED <<exc, opt, fields, gpu, checkpoint, train_part, src_dict, encoder,
                   decoder, context, model, generator, bind, gbind, val,
                   requires_grad, require_grad, model_dict, device>>

\* lines 303-308
ToDevice ==
    /\ pc = "to_device"
    /\ device' = IF gpu THEN "cuda" ELSE "cpu"
    /\ pc' = "done"
    /\ UNCHANGED <<exc, opt, fields, gpu, checkpoint, train_part, src_dict, encoder,
                   decoder, context, model, generator, bind, gbind, val,
                   requires_grad, require_grad, model_dict, attached>>

Next ==
    \/ CheckModelType
    \/ MakeEncoder
    \/ MakeTgtEmbeddings
    \/ ShareEmbeddings
    \/ MakeDecoder
    \/ MakeContext
    \/ MakeModel
    \/ MakeGenerator
    \/ StateDict
    \/ RemapJoin
    \/ FilterSingle
    \/ LoadModel
    \/ LoadGenerator
    \/ Freeze
    \/ UnfreezeContext
    \/ InitUniform
    \/ InitGlorot
    \/ LoadPretrainedEnc
    \/ LoadPretrainedDec
    \/ AddGenerator
    \/ ToDevice

Spec == Init /\ [][Next]_vars

(***************************************************************************)
(* Properties                                                              *)
(***************************************************************************)
Supported == {"text", "img", "audio"}
Returned == pc = "done"
ContextStage == checkpoint.present /\ train_part = "context"
RandomValues == {Uniform, Glorot}
PretrainedValues == {Pretrained("enc.vec"), Pretrained("dec.vec")}

\* C1: after make_base_model returns from a context-stage load (checkpoint
\* given, train_part "context", context_type not None), requires_grad is
\* False on every encoder, decoder and generator parameter and True on
\* every parameter of model.doc_context.
C1_ContextStageFreezesMainModel ==
    (Returned /\ ContextStage /\ opt.context_type /= None) =>
        /\ \A c \in MainCells \cup GeneratorCells : ~requires_grad[c]
        /\ \A c \in ContextCells : requires_grad[c]

\* C2: in a context-stage load with a context_type containing 'join', every
\* checkpoint['model'] entry whose key contains 'doc_context' is in the state
\* handed to load_state_dict under the key with 'doc_context' replaced by
\* 'doc_context.0', and that key is a key of the built model.
C2_JoinLoadsRemappedContextEntries ==
    (pc = "load_model" /\ ContextStage /\ IsJoin(opt.context_type)) =>
        \A k \in DOMAIN checkpoint.model :
            Contains(k, S_doc_context) =>
                /\ RemapKey(k) \in DOMAIN bind
                /\ RemapKey(k) \in DOMAIN model_dict
                /\ model_dict[RemapKey(k)] = Ext(checkpoint.model[k])

\* C3: with share_embeddings set and a supported model_type, the call ends
\* in one of two ways only: the AssertionError asking for -share_vocab, or a
\* model whose decoder word-embedding table is the encoder's table.
C3_ShareEmbeddingsTwoOutcomes ==
    (opt.share_embeddings /\ opt.model_type \in Supported) =>
        /\ pc = "raised" => exc = "AssertionError: -share_vocab"
        /\ Returned => EncEmb \in DOMAIN bind /\ bind[DecEmb] = bind[EncEmb]

\* C4: when copy_attn is false and share_decoder_embeddings is set, from the
\* moment the generator exists its output-projection weight and the
\* decoder's word-embedding weight are one parameter, and no separate
\* generator weight exists, whatever was initialised or loaded since.
C4_GeneratorWeightIsDecoderEmbedding ==
    (generator /= "unset" /\ ~opt.copy_attn /\ opt.share_decoder_embeddings) =>
        /\ gbind[GenWeight(FALSE)] = bind[DecEmb]
        /\ Path(S_generator, GenWeight(FALSE)) \notin DOMAIN val
        /\ val[gbind[GenWeight(FALSE)]] = val[bind[DecEmb]]

C4_Witness ==
    /\ Returned /\ ContextStage
    /\ ~opt.copy_attn /\ opt.share_decoder_embeddings
    /\ checkpoint.generator[GenWeight(FALSE)] /= checkpoint.model[DecEmb]
    /\ val[bind[DecEmb]] = checkpoint.generator[GenWeight(FALSE)]

\* C5: make_context returns None exactly for context_type None, a list of
\* two separate HierarchicalContext exactly for "HAN_join", one
\* HierarchicalContext otherwise; every member is built from opt's rnn_size,
\* dropout, context_type and context_size and the target vocabulary's
\* padding index and token list.
C5_MakeContextWiring ==
    context.kind /= "unset" =>
        /\ context.kind = "None" <=> opt.context_type = None
        /\ context.kind = "ModuleList" <=> opt.context_type = HAN_join
        /\ context.kind = "HierarchicalContext" <=>
              opt.context_type \notin {None, HAN_join}
        /\ Len(context.members) =
              (CASE context.kind = "None" -> 0
                 [] context.kind = "ModuleList" -> 2
                 [] context.kind = "HierarchicalContext" -> 1)
        /\ \A i \in 1..Len(context.members) :
              /\ context.members[i].class = "HierarchicalContext"
              /\ context.members[i].rnn_size = opt.rnn_size
              /\ context.members[i].dropout = opt.dropout
              /\ context.members[i].context_type = opt.context_type
              /\ context.members[i].context_size = opt.context_size
              /\ context.members[i].padding_idx = fields.tgt.pad
              /\ context.members[i].tok_idx =
                    <<fields.tgt.pad, UNK, fields.tgt.bos, fields.tgt.eos>>
        /\ context.kind = "ModuleList" =>
              \A w \in {"w", "b"} :
                 bind[Path(CtxMember("0"), <<w>>)] /= bind[Path(CtxMember("1"), <<w>>)]

C5_Witness ==
    /\ Returned
    /\ opt.context_type = HAN_join
    /\ context.kind = "ModuleList"
    /\ Len(context.members) = 2

\* C6: an unsupported model_type is rejected by the assertion before anything
\* is built; img and audio get ImageEncoder and AudioEncoder whatever
\* encoder_type is; for text, transformer, cnn and mean select their encoder
\* and every other encoder_type selects RNNEncoder; decoder_type transformer
\* and cnn select their decoder whatever input_feed is, and every other
\* decoder_type selects InputFeedRNNDecoder or StdRNNDecoder by input_feed.
C6_ArchitectureDispatch ==
    /\ opt.model_type \notin Supported =>
          /\ pc \in {"check_model_type", "raised"}
          /\ pc = "raised" => exc = "AssertionError: Unsupported model type"
          /\ encoder = "unset" /\ decoder = "unset" /\ model = "unset"
          /\ bind = <<>>
    /\ encoder /= "unset" =>
          /\ opt.model_type = "img" => encoder = "ImageEncoder"
          /\ opt.model_type = "audio" => encoder = "AudioEncoder"
          /\ opt.model_type = "text" =>
                /\ opt.encoder_type = "transformer" => encoder = "TransformerEncoder"
                /\ opt.encoder_type = "cnn" => encoder = "CNNEncoder"
                /\ opt.encoder_type = "mean" => encoder = "MeanEncoder"
                /\ opt.encoder_type \notin {"transformer", "cnn", "mean"} =>
                      encoder = "RNNEncoder"
    /\ decoder /= "unset" =>
          /\ opt.decoder_type = "transformer" => decoder = "TransformerDecoder"
          /\ opt.decoder_type = "cnn" => decoder = "CNNDecoder"
          /\ opt.decoder_type \notin {"transformer", "cnn"} =>
                decoder = (IF opt.input_feed /= 0 THEN "InputFeedRNNDecoder"
                           ELSE "StdRNNDecoder")

C6_Witness ==
    /\ Returned
    /\ opt.model_type = "text" /\ opt.encoder_type = "lstm"
    /\ encoder = "RNNEncoder"
    /\ opt.decoder_type = "cnn" /\ opt.input_feed /= 0
    /\ decoder = "CNNDecoder"

\* C7: in a context-stage load with a context_type that does not contain
\* 'join', the state handed to load_state_dict has exactly the keys of the
\* built model; an entry is the checkpoint's when its key is a key of the
\* model, is in checkpoint['model'] and does not contain 'doc_context', and
\* is the built model's own tensor otherwise.
C7_SingleContextPartialState ==
    (pc = "load_model" /\ ContextStage /\ opt.context_type /= None
        /\ ~IsJoin(opt.context_type)) =>
        /\ DOMAIN model_dict = DOMAIN bind
        /\ \A k \in DOMAIN model_dict :
              model_dict[k] =
                 IF k \in DOMAIN checkpoint.model /\ ~Contains(k, S_doc_context)
                 THEN Ext(checkpoint.model[k])
                 ELSE Own(bind[k])

C7_Witness ==
    /\ pc = "load_model" /\ ContextStage
    /\ opt.context_type = HAN_enc
    /\ opt.model_type = "img"
    /\ CtxW \in DOMAIN checkpoint.model
    /\ EncEmb \in DOMAIN checkpoint.model /\ EncEmb \notin DOMAIN model_dict
    /\ model_dict[CtxW] = Own(CtxW)
    /\ model_dict[EncW] = Ext(checkpoint.model[EncW])

\* what the two random schemes leave in a parameter of the given number of
\* dimensions: the Glorot value where both apply
AfterRandomInit(o, dim) ==
    IF o.param_init_glorot /\ dim > 1 THEN Glorot
    ELSE IF o.param_init /= 0 THEN Uniform
    ELSE Fresh

\* the parts of C8 that concern the order of the steps: without a
\* checkpoint, after the uniform step every parameter holds a uniform value
\* iff param_init /= 0; after the Glorot step every parameter of more than
\* one dimension holds the Glorot value iff param_init_glorot; the encoder's
\* file is loaded before the decoder's; from the pretrained-vector steps on
\* no parameter receives a random value, the decoder's table holds the
\* decoder's file when one is given, only the embedding tables hold
\* pretrained vectors and every other parameter keeps what the random steps
\* left.
C8_Order ==
    ~checkpoint.present =>
        /\ pc = "init_glorot" =>
              \A c \in DOMAIN val :
                 val[c] = (IF opt.param_init /= 0 THEN Uniform ELSE Fresh)
        /\ pc = "pretrained_enc" =>
              \A c \in DOMAIN val : val[c] = AfterRandomInit(opt, Dim(c))
        /\ pc = "pretrained_dec" =>
              \A c \in DOMAIN val :
                 val[c] = (IF EncEmb \in DOMAIN bind /\ c = bind[EncEmb]
                              /\ opt.pre_word_vecs_enc /= "None"
                           THEN Pretrained(opt.pre_word_vecs_enc)
                           ELSE AfterRandomInit(opt, Dim(c)))
        /\ pc \in {"add_generator", "to_device", "done"} =>
              /\ opt.pre_word_vecs_dec /= "None" =>
                    val[bind[DecEmb]] = Pretrained(opt.pre_word_vecs_dec)
              /\ \A c \in DOMAIN val :
                    val[c] \notin PretrainedValues =>
                       val[c] = AfterRandomInit(opt, Dim(c))
              /\ \A c \in DOMAIN val :
                    val[c] \in PretrainedValues =>
                       c \in {bind[DecEmb]} \cup
                             (IF EncEmb \in DOMAIN bind THEN {bind[EncEmb]} ELSE {})

\* the encoder has embeddings and a file of pretrained vectors was given
\* for them, and the steps of lines 291-296 have run
EncoderVectorsLoaded ==
    /\ ~checkpoint.present
    /\ pc \in {"add_generator", "to_device", "done"}
    /\ EncEmb \in DOMAIN bind
    /\ opt.pre_word_vecs_enc /= "None"

\* C8 as stated: the steps run in the order uniform, Glorot, pretrained
\* vectors, and pretrained vectors are never overwritten: once loaded, the
\* encoder's table holds the encoder's file and the decoder's table the
\* decoder's file.
C8_PretrainedNeverOverwritten ==
    /\ C8_Order
    /\ EncoderVectorsLoaded =>
          val[bind[EncEmb]] = Pretrained(opt.pre_word_vecs_enc)

\* C8 amended: the steps run in the order uniform, Glorot, pretrained
\* vectors, and pretrained vectors are never overwritten by a random
\* initialisation; the encoder's table holds the encoder's file unless
\* share_embeddings made it the decoder's table and a decoder file is given,
\* in which case the decoder's file, loaded second, has replaced it.
C8_InitialisationOrder ==
    /\ C8_Order
    /\ EncoderVectorsLoaded =>
          val[bind[EncEmb]] =
             (IF bind[EncEmb] = bind[DecEmb] /\ opt.pre_word_vecs_dec /= "None"
              THEN Pretrained(opt.pre_word_vecs_dec)
              ELSE Pretrained(opt.pre_word_vecs_enc))

C8_Witness ==
    /\ Returned /\ ~checkpoint.present
    /\ opt.param_init /= 0 /\ opt.param_init_glorot
    /\ opt.share_embeddings
    /\ opt.pre_word_vecs_enc /= "None" /\ opt.pre_word_vecs_dec /= "None"
    /\ EncEmb \in DOMAIN bind
    /\ bind[EncEmb] = bind[DecEmb]
    /\ val[bind[EncEmb]] = Pretrained("dec.vec")
    /\ val[EncW] = Glorot
    /\ val[DecB] = Uniform

\* a key whose parameter is also the parameter of another key of the model
\* or of the generator
Tied(k) ==
    \/ \E j \in DOMAIN bind \ {k} : bind[j] = bind[k]
    \/ \E j \in DOMAIN gbind : gbind[j] = bind[k]

MainKeys ==
    {k \in DOMAIN bind : StartsWith(k, Path(S_encoder, <<>>))
                            \/ StartsWith(k, Path(S_decoder, <<>>))}

\* the parts of C9 that do not concern the values of encoder and decoder
\* parameters
C9_Frame ==
    /\ \A k \in DOMAIN gbind : val[gbind[k]] = checkpoint.generator[k]
    /\ \A c \in DOMAIN val :
          val[c] \in RandomValues => c \in ContextCells /\ train_part = "context"
    /\ \A c \in DOMAIN val : val[c] \notin PretrainedValues

\* C9 as stated: on return from a call with a checkpoint, every encoder or
\* decoder parameter whose key is in checkpoint['model'] holds that entry's
\* value, the generator state equals checkpoint['generator'], only
\* doc_context parameters were re-initialised at random and only when
\* train_part is "context", and no pretrained word vectors were loaded.
C9_CheckpointValuesKept ==
    (Returned /\ checkpoint.present) =>
        /\ \A k \in MainKeys :
              k \in DOMAIN checkpoint.model => val[bind[k]] = checkpoint.model[k]
        /\ C9_Frame

\* C9 amended: as C9, with the value of a tied parameter being that of the
\* last checkpoint entry copied into it instead of its own entry's: an
\* encoder or decoder parameter holds its checkpoint entry's value when it
\* is tied to no other key, and some checkpoint value when it is tied.
C9_CheckpointValuesKeptUnlessTied ==
    (Returned /\ checkpoint.present) =>
        /\ \A k \in MainKeys :
              k \in DOMAIN checkpoint.model =>
                 /\ ~Tied(k) => val[bind[k]] = checkpoint.model[k]
                 /\ val[bind[k]] \in
                       {checkpoint.model[j] :
                           j \in {i \in MainKeys : bind[i] = bind[k]}
                                 \cap DOMAIN checkpoint.model}
                       \cup {checkpoint.generator[j] :
                               j \in {i \in DOMAIN gbind : gbind[i] = bind[k]}}
        /\ C9_Frame

C9_Witness ==
    /\ Returned /\ ContextStage
    /\ opt.param_init /= 0
    /\ opt.context_type = HAN_enc
    /\ val[CtxW] = Uniform
    /\ val[EncW] = checkpoint.model[EncW]
    /\ ~Tied(DecEmb)
    /\ val[bind[DecEmb]] = checkpoint.model[DecEmb]

\* C10 as stated: the context-stage loader takes the remapping branch exactly
\* when make_context built the two-member list.
C10_RemapIffPaired ==
    /\ pc = "remap" => context.kind = "ModuleList"
    /\ pc = "filter" => context.kind = "HierarchicalContext"

\* C10 amended: whenever make_context built the two-member list the loader
\* takes the remapping branch, so the unremapped filtering only ever meets a
\* single context module (the remapping branch may meet a single module).
C10_PairedImpliesRemap ==
    /\ (pc \in {"remap", "filter"} /\ context.kind = "ModuleList") => pc = "remap"
    /\ pc = "filter" => context.kind = "HierarchicalContext"
    /\ pc = "remap" => context.kind \in {"ModuleList", "HierarchicalContext"}

C10_Witness ==
    /\ pc = "remap"
    /\ opt.context_type = HAN_join
    /\ context.kind = "ModuleList"

====
